---- MODULE Spec2Model ----
(***************************************************************************)
(* yaml-ast: the document tree (src/lib.rs), its translation into an       *)
(* event sequence (IntoEvents), and the emitter (src/emitter/mod.rs) that  *)
(* renders the events as block-style text on a fmt::Write sink; also the   *)
(* emitter of src/emitter.rs, which the test of src/lib.rs constructs, and *)
(* the event cursor (src/emitter/iter.rs) by its own.                      *)
(***************************************************************************)
EXTENDS Integers, Sequences, FiniteSets, TLC

VARIABLES
    tree,          \* the value handed to into_events (Stream, Document or Node), NoTree for hand-made events
    events,        \* EventIter.events
    index,         \* EventIter.index (0-based)
    indent_size,   \* EmitterOptions.indent_size
    indent_level,  \* Emitter.indent_level
    states,        \* Emitter.states, the States stack, last element is the top
    output,        \* the text the writer has accepted so far
    status,        \* where the caller is: building, emitting, or how emit ended
    run,           \* 1 for the first translate-then-emit pass, 2 for the repeated one
    prev,          \* what the first pass left behind: its output, result and trace
    trace,         \* the (states, indent_level) pairs the emitter went through in this pass
    state,         \* EmitterState.state of the emitter of src/emitter.rs
    call           \* the last call made on an EventIter by its own, and what it returned

vars == <<tree, events, index, indent_size, indent_level, states, output, status, run, prev, trace,
          state, call>>

(***************************************************************************)
(* Bounds                                                                  *)
(***************************************************************************)
\* largest number of nodes of a generated tree (a Document counts as one)
MaxNodes == 3
\* longest hand-made event sequence
MaxEvents == 4
\* how many next() calls are followed once the cursor has reached the end
MaxPastEnd == 2
\* longest hand-made event sequence of the runs checked for termination
MaxLiveEvents == 3
\* largest indent_size option tried
MaxIndentSize == 2
\* most pairs of a generated flat mapping
MaxPairs == 2
\* most items of a generated sequence value
MaxItems == 2

(***************************************************************************)
(* Events (src/events.rs)                                                  *)
(***************************************************************************)
StreamStart == [kind |-> "StreamStart"]
StreamEnd == [kind |-> "StreamEnd"]
DocumentStart == [kind |-> "DocumentStart"]
DocumentEnd == [kind |-> "DocumentEnd"]
Alias(id) == [kind |-> "Alias", anchor |-> id]
Scalar(text) == [kind |-> "Scalar", value |-> text]
SequenceStart(id) == [kind |-> "SequenceStart", anchor |-> id]
SequenceEnd == [kind |-> "SequenceEnd"]
MappingStart(id) == [kind |-> "MappingStart", anchor |-> id]
MappingEnd == [kind |-> "MappingEnd"]

(***************************************************************************)
(* Nodes (src/lib.rs).  A Mapping node keeps the pairs in the order they   *)
(* were handed to Mapping::from; Entries gives the BTreeMap built of them. *)
(***************************************************************************)
MappingNode(pairs) == [kind |-> "Mapping", pairs |-> pairs]
SequenceNode(items) == [kind |-> "Sequence", items |-> items]
StringNode(s) == [kind |-> "String", s |-> s]
NullNode == [kind |-> "Null"]
BooleanNode(b) == [kind |-> "Boolean", b |-> b]
IntegerNode(i) == [kind |-> "Integer", i |-> i]
FloatingPointNode(text) == [kind |-> "FloatingPoint", text |-> text]
DocumentOf(nodes) == [kind |-> "Document", nodes |-> nodes]
StreamOf(docs) == [kind |-> "Stream", docs |-> docs]
NoTree == [kind |-> "None"]

\* the strings of the model in the byte-wise order of str::cmp
StringOrder ==
    <<"a", "b", "clusterName", "global", "ingest", "master", "nodeGroup", "opensearch-cluster",
      "registry", "roles", "singleNode", "test", "x">>

StringRank(s) == CHOOSE r \in 1..Len(StringOrder) : StringOrder[r] = s

\* position of the variant in `enum Node`, which #[derive(Ord)] compares first
VariantRank(n) ==
    CASE n.kind = "Mapping" -> 0
      [] n.kind = "Sequence" -> 1
      [] n.kind = "String" -> 2
      [] n.kind = "Null" -> 3
      [] n.kind = "Boolean" -> 4
      [] n.kind = "Integer" -> 5
      [] n.kind = "FloatingPoint" -> 6

IntCmp(a, b) == IF a < b THEN -1 ELSE IF a > b THEN 1 ELSE 0

RECURSIVE NodeCmp(_, _)
RECURSIVE NodesCmp(_, _)
RECURSIVE Entries(_)

\* BTreeMap::insert on the sorted entry list: an equal key keeps its place and takes the new value
BTreeInsert(map, k, v) ==
    LET less == SelectSeq(map, LAMBDA e : NodeCmp(e[1], k) < 0)
        more == SelectSeq(map, LAMBDA e : NodeCmp(e[1], k) > 0)
    IN  less \o << <<k, v>> >> \o more

RECURSIVE BTreeMapFrom(_)
BTreeMapFrom(pairs) ==
    IF pairs = << >> THEN << >>
    ELSE LET n == Len(pairs)
         IN  BTreeInsert(BTreeMapFrom(SubSeq(pairs, 1, n - 1)), pairs[n][1], pairs[n][2])

Entries(n) == BTreeMapFrom(n.pairs)

RECURSIVE FlattenPairs(_)
FlattenPairs(map) ==
    IF map = << >> THEN << >>
    ELSE <<map[1][1], map[1][2]>> \o FlattenPairs(Tail(map))

\* lexicographic comparison of two node lists (Vec<Node>, and BTreeMap's entry iteration)
NodesCmp(xs, ys) ==
    IF xs = << >> THEN (IF ys = << >> THEN 0 ELSE -1)
    ELSE IF ys = << >> THEN 1
    ELSE LET c == NodeCmp(Head(xs), Head(ys))
         IN  IF c # 0 THEN c ELSE NodesCmp(Tail(xs), Tail(ys))

\* #[derive(PartialOrd, Ord)] on Node
NodeCmp(a, b) ==
    IF VariantRank(a) # VariantRank(b) THEN IntCmp(VariantRank(a), VariantRank(b))
    ELSE CASE a.kind = "Mapping" -> NodesCmp(FlattenPairs(Entries(a)), FlattenPairs(Entries(b)))
           [] a.kind = "Sequence" -> NodesCmp(a.items, b.items)
           [] a.kind = "String" -> IntCmp(StringRank(a.s), StringRank(b.s))
           [] a.kind = "Null" -> 0
           [] a.kind = "Boolean" -> IntCmp(IF a.b THEN 1 ELSE 0, IF b.b THEN 1 ELSE 0)
           [] a.kind = "Integer" -> IntCmp(a.i, b.i)
           [] a.kind = "FloatingPoint" -> 0

(***************************************************************************)
(* Tree-to-event translation (impl IntoEvents, src/lib.rs)                 *)
(***************************************************************************)
Digits == <<"0", "1", "2", "3", "4", "5", "6", "7", "8", "9">>

RECURSIVE NatToString(_)
NatToString(n) ==
    IF n < 10 THEN Digits[n + 1]
    ELSE NatToString(n \div 10) \o Digits[(n % 10) + 1]

\* a variant that loses the sign
IntegerToStringUnsigned(i) == NatToString(IF i < 0 THEN 0 - i ELSE i)

\* i64::to_string
IntegerToString(i) == IF i < 0 THEN "-" \o NatToString(0 - i) ELSE NatToString(i)

\* bool::to_string
BoolToString(b) == IF b THEN "true" ELSE "false"

RECURSIVE NodeIntoEvents(_)
RECURSIVE NodesIntoEvents(_)

NodesIntoEvents(nodes) ==
    IF nodes = << >> THEN << >>
    ELSE NodeIntoEvents(Head(nodes)) \o NodesIntoEvents(Tail(nodes))

\* the FloatingPoint arm is todo!(): see NodeUnimplemented
NodeIntoEvents(n) ==
    CASE n.kind = "Mapping" ->
            <<MappingStart(0)>> \o NodesIntoEvents(FlattenPairs(Entries(n))) \o <<MappingEnd>>
      [] n.kind = "Sequence" ->
            <<SequenceStart(0)>> \o NodesIntoEvents(n.items) \o <<SequenceEnd>>
      [] n.kind = "String" -> <<Scalar(n.s)>>
      [] n.kind = "Null" -> <<Scalar("null")>>
      [] n.kind = "Boolean" -> <<Scalar(BoolToString(n.b))>>
      [] n.kind = "Integer" -> <<Scalar(IntegerToString(n.i))>>
      [] n.kind = "FloatingPoint" -> << >>

\* a variant that leaves the document open
DocumentIntoEventsOpen(doc) == <<DocumentStart>> \o NodesIntoEvents(doc.nodes)

\* impl IntoEvents for Document
DocumentIntoEvents(doc) == <<DocumentStart>> \o NodesIntoEvents(doc.nodes) \o <<DocumentEnd>>

RECURSIVE DocumentsIntoEvents(_)
DocumentsIntoEvents(docs) ==
    IF docs = << >> THEN << >>
    ELSE DocumentIntoEvents(Head(docs)) \o DocumentsIntoEvents(Tail(docs))

\* a variant that gives an empty stream one empty document
StreamIntoEventsPadded(stream) ==
    <<StreamStart>>
    \o (IF stream.docs = << >> THEN DocumentIntoEvents(DocumentOf(<< >>))
        ELSE DocumentsIntoEvents(stream.docs))
    \o <<StreamEnd>>

StreamIntoEvents(stream) == <<StreamStart>> \o DocumentsIntoEvents(stream.docs) \o <<StreamEnd>>

IntoEvents(t) ==
    CASE t.kind = "Stream" -> StreamIntoEvents(t)
      [] t.kind = "Document" -> DocumentIntoEvents(t)
      [] OTHER -> NodeIntoEvents(t)

\* the traversal reaches a FloatingPoint node, whose arm is todo!()
RECURSIVE NodeUnimplemented(_)
NodeUnimplemented(n) ==
    CASE n.kind = "Mapping" ->
            LET flat == FlattenPairs(Entries(n))
            IN  \E k \in 1..Len(flat) : NodeUnimplemented(flat[k])
      [] n.kind = "Sequence" -> \E k \in 1..Len(n.items) : NodeUnimplemented(n.items[k])
      [] n.kind = "FloatingPoint" -> TRUE
      [] OTHER -> FALSE

IntoEventsUnimplemented(t) ==
    CASE t.kind = "Stream" ->
            \E d \in 1..Len(t.docs) : \E k \in 1..Len(t.docs[d].nodes) :
                NodeUnimplemented(t.docs[d].nodes[k])
      [] t.kind = "Document" -> \E k \in 1..Len(t.nodes) : NodeUnimplemented(t.nodes[k])
      [] OTHER -> NodeUnimplemented(t)

(***************************************************************************)
(* The trees and event sequences the runs start from                       *)
(***************************************************************************)
GenScalars ==
    {StringNode("a"), NullNode, BooleanNode(FALSE), IntegerNode(-10), FloatingPointNode("1.5")}

RECURSIVE PairUp(_)
PairUp(flat) ==
    IF flat = << >> THEN << >>
    ELSE << <<flat[1], flat[2]>> >> \o PairUp(SubSeq(flat, 3, Len(flat)))

RECURSIVE NodesOfSize(_)
RECURSIVE ForestsOfSize(_)

\* every list of nodes with n nodes in total
ForestsOfSize(n) ==
    IF n = 0 THEN {<< >>}
    ELSE UNION {{<<t>> \o f : t \in NodesOfSize(k), f \in ForestsOfSize(n - k)} : k \in 1..n}

\* every node that is the root of n nodes
NodesOfSize(n) ==
    IF n = 1 THEN GenScalars \cup {SequenceNode(<< >>), MappingNode(<< >>)}
    ELSE {SequenceNode(f) : f \in ForestsOfSize(n - 1)}
         \cup {MappingNode(PairUp(f)) : f \in {g \in ForestsOfSize(n - 1) : Len(g) % 2 = 0}}

GenNodes == UNION {NodesOfSize(n) : n \in 1..MaxNodes}

GenDocuments == {DocumentOf(f) : f \in UNION {ForestsOfSize(n) : n \in 0..(MaxNodes - 1)}}

RECURSIVE DocListsOfSize(_)
DocListsOfSize(n) ==
    IF n = 0 THEN {<< >>}
    ELSE UNION {{<<DocumentOf(f)>> \o ds : f \in ForestsOfSize(k - 1), ds \in DocListsOfSize(n - k)}
                : k \in 1..n}

GenStreams == {StreamOf(ds) : ds \in UNION {DocListsOfSize(n) : n \in 0..MaxNodes}}

\* the trees of the documented scenarios
FlatMapping ==
    MappingNode(<< <<StringNode("a"), IntegerNode(1)>>, <<StringNode("b"), StringNode("x")>> >>)

RolesMapping ==
    MappingNode(<< <<StringNode("roles"),
                     SequenceNode(<<StringNode("master"), StringNode("ingest")>>)>> >>)

GlobalMapping ==
    MappingNode(<< <<StringNode("global"),
                     MappingNode(<< <<StringNode("registry"), StringNode("test")>> >>)>> >>)

\* a sequence with a mapping between two scalar items
MixedSequence ==
    SequenceNode(<<StringNode("a"), MappingNode(<< <<StringNode("b"), NullNode>> >>), StringNode("x")>>)

\* a mapping whose only key is itself a mapping
MappingKeyedByMapping ==
    MappingNode(<< <<MappingNode(<< >>), StringNode("a")>> >>)

\* the mapping test::basic builds, pairs in the order of the array literal
BasicTestMapping ==
    MappingNode(<< <<StringNode("clusterName"), StringNode("opensearch-cluster")>>,
                   <<StringNode("nodeGroup"), StringNode("master")>>,
                   <<StringNode("singleNode"), BooleanNode(FALSE)>>,
                   <<StringNode("roles"),
                     SequenceNode(<<StringNode("master"), StringNode("ingest")>>)>> >>)

ScenarioNodes == {FlatMapping, RolesMapping, GlobalMapping, MixedSequence, MappingKeyedByMapping}

\* Document::from_mapping and Stream::push_document
DocumentFromMapping(m) == DocumentOf(<<m>>)

ScenarioStreams ==
    {StreamOf(<<DocumentFromMapping(m)>>) : m \in ScenarioNodes}
    \cup {StreamOf(<<DocumentFromMapping(FlatMapping), DocumentFromMapping(RolesMapping)>>)}
    \cup {StreamOf(<<DocumentFromMapping(BasicTestMapping)>>)}

\* mappings of scalar keys and scalar values, in every order of construction, duplicate keys included
FlatKeys == {StringNode("a"), StringNode("b"), NullNode}
FlatValues == {StringNode("x"), IntegerNode(1)}
FlatMappings ==
    {MappingNode(ps) : ps \in UNION {[1..n -> FlatKeys \X FlatValues] : n \in 0..MaxPairs}}

\* mappings of one scalar key and a sequence of scalars
SequenceValuedMappings ==
    {MappingNode(<< <<k, SequenceNode(items)>> >>) :
        k \in FlatKeys, items \in UNION {[1..n -> FlatValues] : n \in 0..MaxItems}}

\* scalar nodes of every kind, alone and as the items of a sequence
ScalarSamples ==
    {StringNode("x"), NullNode, BooleanNode(TRUE), BooleanNode(FALSE),
     IntegerNode(0), IntegerNode(1), IntegerNode(7), IntegerNode(205), IntegerNode(-10)}
ScalarTrees ==
    ScalarSamples
    \cup {SequenceNode(<<s>>) : s \in ScalarSamples}
    \cup {SequenceNode(<<IntegerNode(-10), BooleanNode(TRUE)>>)}

GenFamilies == FlatMappings \cup SequenceValuedMappings \cup ScalarTrees

Trees ==
    GenNodes \cup GenDocuments \cup GenStreams \cup ScenarioNodes \cup ScenarioStreams
    \cup GenFamilies

EventAlphabet ==
    {StreamStart, StreamEnd, DocumentStart, DocumentEnd, Alias(0), Scalar("a"),
     SequenceStart(0), SequenceEnd, MappingStart(0), MappingEnd}

\* every event sequence of at most MaxEvents events
HandMadeEvents == UNION {[1..n -> EventAlphabet] : n \in 0..MaxEvents}

\* EmitterOptions.indent_size: the documented values are the positive ones
IndentSizes == 1..MaxIndentSize

(***************************************************************************)
(* Emitter state (src/emitter/state.rs, src/emitter/mod.rs)                *)
(***************************************************************************)
StateStream == [kind |-> "Stream"]
StateDocument == [kind |-> "Document"]
StateSequence == [kind |-> "Sequence"]
StateMapping(is_key) == [kind |-> "Mapping", is_key |-> is_key]

Building == "building"
Emitting == "emitting"
ReturnedOk == "Ok(())"
\* a variant where the result of the write is dropped and the loop goes on
WriteErrorIgnored == Emitting

\* Error::Write, returned by emit through the ? after each write
ReturnedWriteError == "Err(Error::Write)"
PanickedTodo == "panicked: not yet implemented"
\* a variant where the None of an empty stack is passed over and the loop goes on
UnwrapPassedOver == Emitting

\* the unwrap() of States::pop, current and current_mut on an empty stack
PanickedUnwrap == "panicked: called Option::unwrap() on a None value"
PanickedAssert == "panicked: assertion failed: self.states.is_empty()"

Panicked == {PanickedTodo, PanickedUnwrap, PanickedAssert}
Ended == Panicked \cup {ReturnedOk, ReturnedWriteError}

\* State of src/emitter.rs; State::default() is Initial
StateInitial == "Initial"
StateSequenceItem == "SequenceItem"
StateMappingKey == "MappingKey"
StateMappingValue == "MappingValue"

\* no call has been made on the cursor
NoCall == [op |-> "none"]

NoPrev == [output |-> "", status |-> Building, trace |-> << >>]

\* a variant that keeps the stack and the level of the emitter before it
EmitterNewStale(evs, options) ==
    [states |-> states, indent_level |-> indent_level, options |-> options,
     events |-> [events |-> evs, index |-> 0]]

\* Emitter::new with EventIter::new and States::new
EmitterNew(evs, options) ==
    [states |-> << >>, indent_level |-> 0, options |-> options,
     events |-> [events |-> evs, index |-> 0]]

\* States::is_empty
IsEmpty(st) == st = << >>

\* States::push
Push(st, frame) == Append(st, frame)

\* a variant that leaves the top frame where it is
PopNothing(st) == st

\* States::pop, where the stack is not empty
Pop(st) == SubSeq(st, 1, Len(st) - 1)

\* States::current / current_mut, where the stack is not empty
Current(st) == st[Len(st)]

\* None, as next() and peek() return it
NoEvent == [kind |-> "None"]

\* self.events.get(self.index), 0-based
EventIterGet(evs, ix) == IF ix < Len(evs) THEN evs[ix + 1] ELSE NoEvent

\* a variant that moves the position before it reads
EventIterNextSkipping(evs, ix) ==
    [event |-> EventIterGet(evs, ix + 1), events |-> evs, index |-> ix + 1]

\* a variant that does not move the position
EventIterNextStuck(evs, ix) ==
    [event |-> EventIterGet(evs, ix), events |-> evs, index |-> ix]

\* EventIter::next: what it returns, and the cursor it leaves
EventIterNext(evs, ix) ==
    [event |-> EventIterGet(evs, ix), events |-> evs, index |-> ix + 1]

\* EventIter::peek: what it returns, and the cursor it leaves
EventIterPeek(evs, ix) ==
    [event |-> EventIterGet(evs, ix), events |-> evs, index |-> ix]

\* EventIter::peek of the emitter's cursor at a 0-based position
PeekAt(ix) == EventIterPeek(events, ix).event

RECURSIVE Repeat(_, _)
Repeat(s, n) == IF n <= 0 THEN "" ELSE s \o Repeat(s, n - 1)

\* the string emit_indent writes
IndentPrefix(size, level) == Repeat(Repeat(" ", size), level)

RECURSIVE Concat(_, _)
\* the first n of the pieces, joined
Concat(pieces, n) == IF n = 0 THEN "" ELSE Concat(pieces, n - 1) \o pieces[n]

(***************************************************************************)
(* What each handler hands to the writer, one element per write_str call   *)
(***************************************************************************)
\* emit_document_start: writeln!(writer, "---")
DocumentStartPieces == <<"---\n">>

\* a variant that closes a document with the start marker
DocumentEndPiecesDashes == <<"---\n">>

\* emit_document_end: writeln!(writer, "...")
DocumentEndPieces == <<"...\n">>

\* emit_sequence_item: emit_indent, then writeln!(writer, "- {}", value)
SequenceItemPieces(size, level, value) == <<IndentPrefix(size, level), "- ", value, "\n">>

\* a variant without the lookahead: the key never ends its line
MappingKeyPiecesInline(value, peek) == <<value, ": ">>

\* emit_mapping_key: writeln!(writer, "{}: ", value) before a sequence, write! otherwise
MappingKeyPieces(value, peek) ==
    IF peek.kind = "SequenceStart" THEN <<value, ": \n">> ELSE <<value, ": ">>

\* emit_mapping_value: writeln!(writer, "{}", value)
MappingValuePieces(value) == <<value, "\n">>

\* emit_mapping_start: one level deeper, and the indent written, when the next event opens a mapping too
MappingStartIndents(peek) == peek.kind = "MappingStart"

MappingStartPieces(size, level, peek) ==
    IF MappingStartIndents(peek) THEN <<IndentPrefix(size, level + 1)>> ELSE << >>

\* a variant that leaves the level as it is
SequenceEndIndentKept(level) == level

\* emit_sequence_end: if self.indent_level > 0 { self.indent_level -= 1 }
SequenceEndIndent(level) == IF level > 0 THEN level - 1 ELSE level

\* a variant without the guard
MappingEndIndentUnguarded(level) == level - 1

\* emit_mapping_end: if self.indent_level > 0 { self.indent_level -= 1 }
MappingEndIndent(level) == IF level > 0 THEN level - 1 ELSE level

\* a variant that never flips the flag
ToggleKeyStuck(st) == st

\* a variant that flips the flag of every Mapping frame on the stack
ToggleKeyEverywhere(st) ==
    [i \in 1..Len(st) |-> IF st[i].kind = "Mapping" THEN StateMapping(~(st[i].is_key))
                                                    ELSE st[i]]

\* emit_scalar in a mapping frame: the flag is flipped before the text is written
ToggleKey(st) == [st EXCEPT ![Len(st)] = StateMapping(~(st[Len(st)].is_key))]

(***************************************************************************)
(* The caller: into_events, Emitter::new, String::new                      *)
(***************************************************************************)
\* the caller holds a tree to translate, or a list of events made by hand
Init ==
    /\ indent_size \in IndentSizes
    /\ run = 1
    /\ prev = NoPrev
    /\ trace = << >>
    /\ output = ""
    /\ status = Building
    /\ index = 0
    /\ states = << >>
    /\ indent_level = 0
    /\ state = StateInitial
    /\ call = NoCall
    /\ \/ tree \in Trees /\ events = << >>
       \/ tree = NoTree /\ events \in HandMadeEvents

\* let events = tree.into_events(); let mut output = String::new();
\* let emitter = Emitter::new(events, options)
Construct ==
    /\ status = Building
    /\ IF tree # NoTree /\ IntoEventsUnimplemented(tree)
       THEN /\ status' = PanickedTodo
            /\ UNCHANGED <<events, index, indent_size, indent_level, states, output, trace>>
       ELSE LET e == EmitterNew(IF tree = NoTree THEN events ELSE IntoEvents(tree),
                                [indent_size |-> indent_size])
            IN  /\ events' = e.events.events
                /\ index' = e.events.index
                /\ indent_size' = e.options.indent_size
                /\ states' = e.states
                /\ indent_level' = e.indent_level
                /\ output' = ""
                /\ trace' = << >>
                /\ status' = Emitting
    /\ UNCHANGED <<tree, run, prev, state, call>>

\* the same tree is built, translated and emitted once more
Restart ==
    /\ run = 1
    /\ tree # NoTree
    /\ status \in Ended
    /\ run' = 2
    /\ prev' = [output |-> output, status |-> status, trace |-> trace]
    /\ status' = Building
    /\ UNCHANGED <<tree, events, index, indent_size, indent_level, states, output, trace>>
    /\ UNCHANGED <<state, call>>

(***************************************************************************)
(* Emitter::emit: one action per arm of the match, and the loop's exit     *)
(***************************************************************************)
\* self.events.next() returns an event of this kind
Taking(kind) ==
    /\ status = Emitting
    /\ index < Len(events)
    /\ events[index + 1].kind = kind

Record == trace' = Append(trace, [states |-> states', indent_level |-> indent_level'])

Frame == UNCHANGED <<tree, events, indent_size, run, prev, state, call>>

\* Event::StreamStart => self.states.push(State::Stream)
EmitStreamStart ==
    /\ Taking("StreamStart")
    /\ index' = EventIterNext(events, index).index
    /\ states' = Push(states, StateStream)
    /\ UNCHANGED <<indent_level, output, status>>
    /\ Record /\ Frame

\* Event::StreamEnd => self.states.pop()
EmitStreamEnd ==
    /\ Taking("StreamEnd")
    /\ index' = EventIterNext(events, index).index
    /\ IF IsEmpty(states)
       THEN status' = PanickedUnwrap /\ states' = states
       ELSE status' = status /\ states' = Pop(states)
    /\ UNCHANGED <<indent_level, output>>
    /\ Record /\ Frame

EmitDocumentStart ==
    /\ Taking("DocumentStart")
    /\ index' = EventIterNext(events, index).index
    /\ \E n \in 0..Len(DocumentStartPieces) :
          /\ output' = output \o Concat(DocumentStartPieces, n)
          /\ IF n < Len(DocumentStartPieces)
             THEN status' = ReturnedWriteError /\ states' = states
             ELSE status' = status /\ states' = Push(states, StateDocument)
    /\ UNCHANGED indent_level
    /\ Record /\ Frame

EmitDocumentEnd ==
    /\ Taking("DocumentEnd")
    /\ index' = EventIterNext(events, index).index
    /\ \E n \in 0..Len(DocumentEndPieces) :
          /\ output' = output \o Concat(DocumentEndPieces, n)
          /\ IF n < Len(DocumentEndPieces)
             THEN status' = ReturnedWriteError /\ states' = states
             ELSE IF IsEmpty(states)
                  THEN status' = PanickedUnwrap /\ states' = states
                  ELSE status' = status /\ states' = Pop(states)
    /\ UNCHANGED indent_level
    /\ Record /\ Frame

\* Event::Alias(_) => todo!()
EmitAlias ==
    /\ Taking("Alias")
    /\ index' = EventIterNext(events, index).index
    /\ status' = PanickedTodo
    /\ UNCHANGED <<indent_level, states, output>>
    /\ Record /\ Frame

EmitScalar ==
    /\ Taking("Scalar")
    /\ index' = EventIterNext(events, index).index
    /\ UNCHANGED indent_level
    /\ LET value == events[index + 1].value
           peek == PeekAt(index + 1)
       IN  IF IsEmpty(states)
           THEN status' = PanickedUnwrap /\ UNCHANGED <<states, output>>
           ELSE IF Current(states).kind \in {"Stream", "Document"}
           THEN status' = PanickedTodo /\ UNCHANGED <<states, output>>
           ELSE LET pieces ==
                        IF Current(states).kind = "Sequence"
                        THEN SequenceItemPieces(indent_size, indent_level, value)
                        ELSE IF Current(states).is_key
                        THEN MappingKeyPieces(value, peek)
                        ELSE MappingValuePieces(value)
                IN  /\ states' = IF Current(states).kind = "Mapping"
                                 THEN ToggleKey(states) ELSE states
                    /\ \E n \in 0..Len(pieces) :
                          /\ output' = output \o Concat(pieces, n)
                          /\ status' = IF n < Len(pieces) THEN ReturnedWriteError ELSE status
    /\ Record /\ Frame

EmitSequenceStart ==
    /\ Taking("SequenceStart")
    /\ index' = EventIterNext(events, index).index
    /\ indent_level' = indent_level + 1
    /\ states' = Push(states, StateSequence)
    /\ UNCHANGED <<output, status>>
    /\ Record /\ Frame

EmitSequenceEnd ==
    /\ Taking("SequenceEnd")
    /\ index' = EventIterNext(events, index).index
    /\ indent_level' = SequenceEndIndent(indent_level)
    /\ IF IsEmpty(states)
       THEN status' = PanickedUnwrap /\ states' = states
       ELSE status' = status /\ states' = Pop(states)
    /\ UNCHANGED output
    /\ Record /\ Frame

EmitMappingStart ==
    /\ Taking("MappingStart")
    /\ index' = EventIterNext(events, index).index
    /\ LET peek == PeekAt(index + 1)
           pieces == MappingStartPieces(indent_size, indent_level, peek)
       IN  /\ indent_level' = IF MappingStartIndents(peek) THEN indent_level + 1 ELSE indent_level
           /\ \E n \in 0..Len(pieces) :
                 /\ output' = output \o Concat(pieces, n)
                 /\ IF n < Len(pieces)
                    THEN status' = ReturnedWriteError /\ states' = states
                    ELSE status' = status /\ states' = Push(states, StateMapping(TRUE))
    /\ Record /\ Frame

EmitMappingEnd ==
    /\ Taking("MappingEnd")
    /\ index' = EventIterNext(events, index).index
    /\ indent_level' = MappingEndIndent(indent_level)
    /\ IF IsEmpty(states)
       THEN status' = PanickedUnwrap /\ states' = states
       ELSE status' = status /\ states' = Pop(states)
    /\ UNCHANGED output
    /\ Record /\ Frame

\* next() returns None: the loop ends, assert!(self.states.is_empty()); Ok(())
EmitReturn ==
    /\ status = Emitting
    /\ index >= Len(events)
    /\ index' = EventIterNext(events, index).index
    /\ status' = IF IsEmpty(states) THEN ReturnedOk ELSE PanickedAssert
    /\ UNCHANGED <<indent_level, states, output, trace>>
    /\ Frame

Next ==
    \/ Construct
    \/ Restart
    \/ EmitStreamStart
    \/ EmitStreamEnd
    \/ EmitDocumentStart
    \/ EmitDocumentEnd
    \/ EmitAlias
    \/ EmitScalar
    \/ EmitSequenceStart
    \/ EmitSequenceEnd
    \/ EmitMappingStart
    \/ EmitMappingEnd
    \/ EmitReturn

Spec == Init /\ [][Next]_vars

\* the steps of emit itself
Emit ==
    \/ EmitStreamStart
    \/ EmitStreamEnd
    \/ EmitDocumentStart
    \/ EmitDocumentEnd
    \/ EmitAlias
    \/ EmitScalar
    \/ EmitSequenceStart
    \/ EmitSequenceEnd
    \/ EmitMappingStart
    \/ EmitMappingEnd
    \/ EmitReturn

\* the inputs of Init whose hand-made event sequences have at most MaxLiveEvents events
InitLive == Init /\ Len(events) <= MaxLiveEvents

\* emit, once called, runs on: its loop is not held up by anything outside it
SpecLive == InitLive /\ [][Next]_vars /\ WF_vars(Emit)

TypeOK ==
    /\ indent_level \in Nat
    /\ index \in Nat
    /\ status \in Ended \cup {Building, Emitting}
    /\ run \in {1, 2}

(***************************************************************************)
(* The emitter of src/emitter.rs: one State instead of a stack. It is the  *)
(* one test::basic constructs, Emitter::new(events, 2).                    *)
(***************************************************************************)
\* Emitter::new(events, indent_size) of src/emitter.rs
LegacyEmitterNew(evs, size) ==
    [state |-> [state |-> StateInitial, indent_level |-> 0, indent_size |-> size],
     events |-> [events |-> evs, index |-> 0]]

\* let events = tree.into_events(); let mut output = String::new();
\* let emitter = Emitter::new(events, indent_size)
LegacyConstruct ==
    /\ status = Building
    /\ IF tree # NoTree /\ IntoEventsUnimplemented(tree)
       THEN /\ status' = PanickedTodo
            /\ UNCHANGED <<events, index, indent_size, indent_level, state, output>>
       ELSE LET e == LegacyEmitterNew(IF tree = NoTree THEN events ELSE IntoEvents(tree),
                                      indent_size)
            IN  /\ events' = e.events.events
                /\ index' = e.events.index
                /\ indent_size' = e.state.indent_size
                /\ state' = e.state.state
                /\ indent_level' = e.state.indent_level
                /\ output' = ""
                /\ status' = Emitting
    /\ UNCHANGED <<tree, run, prev, states, trace, call>>

LegacyFrame == UNCHANGED <<tree, events, indent_size, run, prev, states, trace, call>>

\* Event::StreamStart => continue
LegacyStreamStart ==
    /\ Taking("StreamStart")
    /\ index' = index + 1
    /\ UNCHANGED <<indent_level, state, output, status>>
    /\ LegacyFrame

\* Event::StreamEnd => break, then Ok(())
LegacyStreamEnd ==
    /\ Taking("StreamEnd")
    /\ index' = index + 1
    /\ status' = ReturnedOk
    /\ UNCHANGED <<indent_level, state, output>>
    /\ LegacyFrame

LegacyDocumentStart ==
    /\ Taking("DocumentStart")
    /\ index' = index + 1
    /\ \E n \in 0..Len(DocumentStartPieces) :
          /\ output' = output \o Concat(DocumentStartPieces, n)
          /\ status' = IF n < Len(DocumentStartPieces) THEN ReturnedWriteError ELSE status
    /\ UNCHANGED <<indent_level, state>>
    /\ LegacyFrame

LegacyDocumentEnd ==
    /\ Taking("DocumentEnd")
    /\ index' = index + 1
    /\ \E n \in 0..Len(DocumentEndPieces) :
          /\ output' = output \o Concat(DocumentEndPieces, n)
          /\ status' = IF n < Len(DocumentEndPieces) THEN ReturnedWriteError ELSE status
    /\ UNCHANGED <<indent_level, state>>
    /\ LegacyFrame

\* Event::Alias(_) => todo!()
LegacyAlias ==
    /\ Taking("Alias")
    /\ index' = index + 1
    /\ status' = PanickedTodo
    /\ UNCHANGED <<indent_level, state, output>>
    /\ LegacyFrame

\* the State after emit_scalar has written everything
LegacyScalarState(st, peek) ==
    CASE st = StateSequenceItem -> StateSequenceItem
      [] st = StateMappingKey -> StateMappingValue
      [] st = StateMappingValue -> IF peek.kind = "MappingEnd" THEN StateMappingValue
                                   ELSE StateMappingKey

LegacyScalar ==
    /\ Taking("Scalar")
    /\ index' = index + 1
    /\ UNCHANGED indent_level
    /\ LET value == events[index + 1].value
           peek == PeekAt(index + 1)
       IN  IF state = StateInitial
           THEN status' = PanickedTodo /\ UNCHANGED <<state, output>>
           ELSE LET pieces ==
                        CASE state = StateSequenceItem
                               -> SequenceItemPieces(indent_size, indent_level, value)
                          [] state = StateMappingKey -> MappingKeyPieces(value, peek)
                          [] state = StateMappingValue -> MappingValuePieces(value)
                IN  \E n \in 0..Len(pieces) :
                       /\ output' = output \o Concat(pieces, n)
                       /\ IF n < Len(pieces)
                          THEN status' = ReturnedWriteError /\ state' = state
                          ELSE status' = status /\ state' = LegacyScalarState(state, peek)
    /\ LegacyFrame

LegacySequenceStart ==
    /\ Taking("SequenceStart")
    /\ index' = index + 1
    /\ indent_level' = indent_level + 1
    /\ state' = StateSequenceItem
    /\ UNCHANGED <<output, status>>
    /\ LegacyFrame

LegacySequenceEnd ==
    /\ Taking("SequenceEnd")
    /\ index' = index + 1
    /\ indent_level' = SequenceEndIndent(indent_level)
    /\ state' = StateInitial
    /\ UNCHANGED <<output, status>>
    /\ LegacyFrame

LegacyMappingStart ==
    /\ Taking("MappingStart")
    /\ index' = index + 1
    /\ LET peek == PeekAt(index + 1)
           pieces == MappingStartPieces(indent_size, indent_level, peek)
       IN  /\ indent_level' = IF MappingStartIndents(peek) THEN indent_level + 1 ELSE indent_level
           /\ \E n \in 0..Len(pieces) :
                 /\ output' = output \o Concat(pieces, n)
                 /\ IF n < Len(pieces)
                    THEN status' = ReturnedWriteError /\ state' = state
                    ELSE status' = status /\ state' = StateMappingKey
    /\ LegacyFrame

LegacyMappingEnd ==
    /\ Taking("MappingEnd")
    /\ index' = index + 1
    /\ indent_level' = MappingEndIndent(indent_level)
    /\ UNCHANGED <<state, output, status>>
    /\ LegacyFrame

\* next() returns None: the while let loop ends, Ok(())
LegacyReturn ==
    /\ status = Emitting
    /\ index >= Len(events)
    /\ index' = index + 1
    /\ status' = ReturnedOk
    /\ UNCHANGED <<indent_level, state, output>>
    /\ LegacyFrame

NextLegacy ==
    \/ LegacyConstruct
    \/ LegacyStreamStart
    \/ LegacyStreamEnd
    \/ LegacyDocumentStart
    \/ LegacyDocumentEnd
    \/ LegacyAlias
    \/ LegacyScalar
    \/ LegacySequenceStart
    \/ LegacySequenceEnd
    \/ LegacyMappingStart
    \/ LegacyMappingEnd
    \/ LegacyReturn

SpecLegacy == Init /\ [][NextLegacy]_vars

(***************************************************************************)
(* The event cursor by its own (src/emitter/iter.rs): a caller that makes  *)
(* next() and peek() calls in any order on an EventIter                    *)
(***************************************************************************)
\* let mut iter = EventIter::new(events)
InitCursor ==
    /\ tree = NoTree
    /\ events \in HandMadeEvents
    /\ index = EmitterNew(events, [indent_size |-> 1]).events.index
    /\ call = NoCall
    /\ indent_size = 1
    /\ indent_level = 0
    /\ states = << >>
    /\ state = StateInitial
    /\ output = ""
    /\ status = Building
    /\ run = 1
    /\ prev = NoPrev
    /\ trace = << >>

CursorFrame ==
    UNCHANGED <<tree, indent_size, indent_level, states, state, output, status, run, prev, trace>>

\* iter.next(), at most MaxPastEnd times after the end was reached
CursorNext ==
    /\ index < Len(events) + MaxPastEnd
    /\ LET r == EventIterNext(events, index)
       IN  /\ index' = r.index
           /\ events' = r.events
           /\ call' = [op |-> "next", returned |-> r.event]
    /\ CursorFrame

\* iter.peek()
CursorPeek ==
    /\ LET r == EventIterPeek(events, index)
       IN  /\ index' = r.index
           /\ events' = r.events
           /\ call' = [op |-> "peek", returned |-> r.event]
    /\ CursorFrame

NextCursor == CursorNext \/ CursorPeek

SpecCursor == InitCursor /\ [][NextCursor]_vars

(***************************************************************************)
(* Vocabulary of the properties                                            *)
(***************************************************************************)
\* the event emit handled last, where it has handled one
Handled == index \in 1..Len(events)
LastEvent == events[index]

\* the stack of open brackets after the first n events, <<"Closed">> once the stream is
\* closed, <<"Bad">> as soon as an event does not fit the nesting
RECURSIVE NestingAfter(_, _)
NestingAfter(evs, n) ==
    IF n = 0 THEN << >>
    ELSE LET before == NestingAfter(evs, n - 1)
             k == evs[n].kind
             top == IF before = << >> THEN "" ELSE before[Len(before)]
             inner == top \in {"Document", "Mapping", "Sequence"}
             popped == SubSeq(before, 1, Len(before) - 1)
         IN  CASE k = "StreamStart" ->
                    IF n = 1 THEN <<"Stream">> ELSE <<"Bad">>
               [] k = "StreamEnd" ->
                    IF before = <<"Stream">> THEN <<"Closed">> ELSE <<"Bad">>
               [] k = "DocumentStart" ->
                    IF top = "Stream" THEN Append(before, "Document") ELSE <<"Bad">>
               [] k = "DocumentEnd" ->
                    IF top = "Document" THEN popped ELSE <<"Bad">>
               [] k = "MappingStart" ->
                    IF inner THEN Append(before, "Mapping") ELSE <<"Bad">>
               [] k = "MappingEnd" ->
                    IF top = "Mapping" THEN popped ELSE <<"Bad">>
               [] k = "SequenceStart" ->
                    IF inner THEN Append(before, "Sequence") ELSE <<"Bad">>
               [] k = "SequenceEnd" ->
                    IF top = "Sequence" THEN popped ELSE <<"Bad">>
               [] OTHER ->
                    IF inner THEN before ELSE <<"Bad">>

\* StreamStart ... StreamEnd with matched Document, Mapping and Sequence pairs
WellNested(evs) == NestingAfter(evs, Len(evs)) = <<"Closed">>

\* no write was refused in this pass
SinkAccepted == status # ReturnedWriteError

(***************************************************************************)
(* Properties                                                              *)
(***************************************************************************)
\* C1: for a well-nested event sequence, once emit has handled the closing StreamEnd the
\* indent level is 0 and the context stack is empty (and emit has neither failed nor panicked).
C1_BalanceAfterStreamEnd ==
    (status # Building /\ index >= Len(events) /\ WellNested(events))
        => (indent_level = 0 /\ IsEmpty(states) /\ status \in {Emitting, ReturnedOk})

\* a well-nested stream with a nested block was emitted to the end: the stack was three deep
\* and the level raised on the way
C1_Witness ==
    /\ status = ReturnedOk
    /\ WellNested(events)
    /\ \E i \in 1..Len(trace) : trace[i].indent_level > 0 /\ Len(trace[i].states) >= 4

\* C2: the nested-mapping scenario: {"global": {"registry": "test"}} with indent_size 2 is
\* written as "global: \n  registry: test\n".
C2_NestedMappingOutput ==
    (tree = GlobalMapping /\ indent_size = 2 /\ status \in Ended /\ SinkAccepted)
        => (status = ReturnedOk /\ output = "global: \n  registry: test\n")

\* MappingStart, a scalar key, SequenceStart, scalar items, SequenceEnd, MappingEnd
IsKeyedSequenceEvents(evs) ==
    /\ Len(evs) >= 5
    /\ evs[1].kind = "MappingStart"
    /\ evs[2].kind = "Scalar"
    /\ evs[3].kind = "SequenceStart"
    /\ \A i \in 4..(Len(evs) - 2) : evs[i].kind = "Scalar"
    /\ evs[Len(evs) - 1].kind = "SequenceEnd"
    /\ evs[Len(evs)].kind = "MappingEnd"

\* the item lines of events 4..last, each indented by one level
RECURSIVE ItemLines(_, _, _)
ItemLines(evs, last, size) ==
    IF last < 4 THEN ""
    ELSE ItemLines(evs, last - 1, size) \o Repeat(" ", size) \o "- " \o evs[last].value \o "\n"

\* C3: a mapping entry whose value is a sequence of scalars is written as "key: ", a line
\* break, and one line per item, in order, of one indent level, "- ", the item and a line
\* break; {"roles": ["master", "ingest"]} with indent_size 2 gives
\* "roles: \n  - master\n  - ingest\n".
C3_SequenceValue ==
    /\ (IsKeyedSequenceEvents(events) /\ status \in Ended /\ SinkAccepted)
          => /\ status = ReturnedOk
             /\ output = events[2].value \o ": \n" \o ItemLines(events, Len(events) - 2, indent_size)
    /\ (tree = RolesMapping /\ indent_size = 2 /\ status \in Ended /\ SinkAccepted)
          => (status = ReturnedOk /\ output = "roles: \n  - master\n  - ingest\n")

\* the roles scenario was emitted to the end
C3_Witness ==
    /\ tree = RolesMapping
    /\ indent_size = 2
    /\ status = ReturnedOk
    /\ output = "roles: \n  - master\n  - ingest\n"

\* MappingStart, an even number of scalars, MappingEnd
IsFlatMappingEvents(evs) ==
    /\ Len(evs) >= 2
    /\ Len(evs) % 2 = 0
    /\ evs[1].kind = "MappingStart"
    /\ \A i \in 2..(Len(evs) - 1) : evs[i].kind = "Scalar"
    /\ evs[Len(evs)].kind = "MappingEnd"

\* "key: value" and a line break for each of the first n pairs of scalars
RECURSIVE PairLines(_, _)
PairLines(evs, n) ==
    IF n = 0 THEN ""
    ELSE PairLines(evs, n - 1) \o evs[2 * n].value \o ": " \o evs[2 * n + 1].value \o "\n"

\* C4: a flat mapping is written as one unindented "key: value" line per pair, in event
\* order, and nothing else; {"a": 1, "b": "x"} with indent_size 2 gives "a: 1\nb: x\n".
C4_FlatMapping ==
    /\ (IsFlatMappingEvents(events) /\ status \in Ended /\ SinkAccepted)
          => (status = ReturnedOk /\ output = PairLines(events, (Len(events) - 2) \div 2))
    /\ (tree = FlatMapping /\ indent_size = 2 /\ status \in Ended /\ SinkAccepted)
          => (status = ReturnedOk /\ output = "a: 1\nb: x\n")

\* the flat scenario was emitted to the end
C4_Witness ==
    /\ tree = FlatMapping
    /\ indent_size = 2
    /\ status = ReturnedOk
    /\ output = "a: 1\nb: x\n"

StartsWith(text, prefix) ==
    Len(text) >= Len(prefix) /\ SubSeq(text, 1, Len(prefix)) = prefix

EndsWith(text, suffix) ==
    Len(text) >= Len(suffix) /\ SubSeq(text, Len(text) - Len(suffix) + 1, Len(text)) = suffix

\* a stream of one or more documents, each with one mapping as its root
MappingRootedStream(t) ==
    /\ t.kind = "Stream"
    /\ Len(t.docs) >= 1
    /\ \A d \in 1..Len(t.docs) :
          Len(t.docs[d].nodes) = 1 /\ t.docs[d].nodes[1].kind = "Mapping"

\* C5: for a stream of documents rooted in a mapping the text starts with the line "---" and
\* ends with the line "..."; handling DocumentStart appends "---" and a line break and pushes
\* a Document frame, handling DocumentEnd appends "..." and a line break and pops that frame.
C5_DocumentMarkers ==
    /\ []((MappingRootedStream(tree) /\ status = ReturnedOk)
            => (StartsWith(output, "---\n") /\ EndsWith(output, "...\n")))
    /\ [][MappingRootedStream(tree) =>
            /\ (Taking("DocumentStart") /\ status' = Emitting)
                  => (output' = output \o "---\n" /\ states' = Append(states, StateDocument))
            /\ (Taking("DocumentEnd") /\ status' = Emitting)
                  => /\ output' = output \o "...\n"
                     /\ states # << >>
                     /\ Current(states) = StateDocument
                     /\ states' = SubSeq(states, 1, Len(states) - 1)]_vars

\* a stream of two mapping-rooted documents was emitted to the end
C5_Witness ==
    /\ MappingRootedStream(tree)
    /\ Len(tree.docs) = 2
    /\ status = ReturnedOk
    /\ StartsWith(output, "---\n")
    /\ EndsWith(output, "...\n")

\* C6: for the events of a stream without documents, StreamStart and StreamEnd alone, emit
\* writes nothing and returns Ok.
C6_EmptyStream ==
    (status # Building /\ (tree = StreamOf(<< >>) \/ events = <<StreamStart, StreamEnd>>))
        => /\ events = <<StreamStart, StreamEnd>>
           /\ output = ""
           /\ status \in {Emitting, ReturnedOk}

\* the empty stream was translated and emitted to the end
C6_Witness ==
    /\ tree = StreamOf(<< >>)
    /\ index > Len(events)
    /\ status = ReturnedOk
    /\ output = ""

C8_IndentNeverNegative ==
    /\ indent_level >= 0
    /\ \A i \in 1..Len(trace) : trace[i].indent_level >= 0
    /\ (Handled /\ status # Building /\ LastEvent.kind \in {"MappingEnd", "SequenceEnd"}
          /\ (IF index = 1 THEN 0 ELSE trace[index - 1].indent_level) = 0)
          => indent_level = 0

\* an End event without its Start was handled at level 0
C8_Witness ==
    /\ Handled
    /\ tree = NoTree
    /\ LastEvent.kind \in {"MappingEnd", "SequenceEnd"}
    /\ status = PanickedUnwrap
    /\ indent_level = 0

\* C9: on an Alias event emit returns the unsupported-feature error as a value (it does not
\* panic) and writes nothing more.
C9_AliasReturnsError ==
    (Handled /\ status \in Ended /\ LastEvent.kind = "Alias") => status \notin Panicked

\* C10: on a Scalar event while the current frame is Stream or Document emit returns an
\* unsupported-construct error as a value (it does not panic).
C10_BareScalarReturnsError ==
    (/\ Handled
     /\ status \in Ended
     /\ LastEvent.kind = "Scalar"
     /\ states # << >>
     /\ Current(states).kind \in {"Stream", "Document"}) => status \notin Panicked

\* C11: translating a tree that holds a FloatingPoint node gives back an "unsupported node
\* kind" error as a value; the translation does not abort the process.
C11_FloatingPointReturnsError ==
    (tree # NoTree /\ IntoEventsUnimplemented(tree) /\ status \in Ended)
        => status \notin Panicked

\* C12: when a write to the sink fails while an event is processed, emit stops at once and
\* returns the Write error: the failing event is the last one consumed, nothing is written
\* afterwards, and the push or pop that follows the failed write in that handler is not done.
C12_WriteFailureStops ==
    [][/\ status = ReturnedWriteError
            => UNCHANGED <<events, index, output, states, indent_level, trace>>
       /\ (status = Emitting /\ status' = ReturnedWriteError)
            => /\ index' = index + 1
               /\ Len(states') = Len(states)
               /\ events[index + 1].kind \in {"DocumentStart", "DocumentEnd", "MappingStart"}
                     => states' = states]_vars

\* the write of emit_mapping_start failed: no Mapping frame was pushed, events are left over
C12_Witness ==
    /\ status = ReturnedWriteError
    /\ Handled
    /\ LastEvent.kind = "MappingStart"
    /\ index < Len(events)
    /\ states = <<StateStream, StateDocument>>
    /\ output = "---\n"

\* the stream test::basic hands to into_events
BasicTestStream == StreamOf(<<DocumentFromMapping(BasicTestMapping)>>)

\* C13: translating and then emitting, with indent size 2, the one-document stream whose
\* root mapping has string keys and a string, a boolean and a sequence-of-strings value,
\* with an entry after the sequence-valued one, ends with emit returning Ok(()), neither
\* an error nor a panic (the sink accepting every write).
C13_BasicTestCompletes ==
    (tree = BasicTestStream /\ indent_size = 2 /\ status \in Ended /\ SinkAccepted)
        => status = ReturnedOk

\* how many events of this kind the sequence holds
CountKind(evs, kind) == Cardinality({i \in 1..Len(evs) : evs[i].kind = kind})

\* C14: for every stream of documents built from Mapping, Sequence, String, Null, Boolean
\* and Integer nodes the translated event sequence is well-nested: one StreamStart, first;
\* one StreamEnd, last; one DocumentStart/DocumentEnd pair per document; every MappingStart
\* and SequenceStart closed by its own End, properly nested.
C14_TranslationWellNested ==
    (tree.kind = "Stream" /\ ~IntoEventsUnimplemented(tree) /\ status # Building)
        => /\ WellNested(events)
           /\ events[1] = StreamStart /\ CountKind(events, "StreamStart") = 1
           /\ events[Len(events)] = StreamEnd /\ CountKind(events, "StreamEnd") = 1
           /\ CountKind(events, "DocumentStart") = Len(tree.docs)
           /\ CountKind(events, "DocumentEnd") = Len(tree.docs)
           /\ CountKind(events, "MappingStart") = CountKind(events, "MappingEnd")
           /\ CountKind(events, "SequenceStart") = CountKind(events, "SequenceEnd")

\* a stream of two documents, with a mapping and a sequence in them, has been translated
C14_Witness ==
    /\ tree.kind = "Stream"
    /\ Len(tree.docs) = 2
    /\ status = Emitting
    /\ index = 0
    /\ CountKind(events, "MappingStart") = 2
    /\ CountKind(events, "SequenceStart") = 1
    /\ WellNested(events)

\* the events of a tree whose every list is walked in the order it was given at
\* construction: documents, sequence items, and the pairs of a mapping (key, then value)
RECURSIVE GivenOrderEvents(_)
RECURSIVE GivenOrderList(_)
GivenOrderList(ts) ==
    IF ts = << >> THEN << >> ELSE GivenOrderEvents(Head(ts)) \o GivenOrderList(Tail(ts))

GivenOrderEvents(t) ==
    CASE t.kind = "Stream" -> <<StreamStart>> \o GivenOrderList(t.docs) \o <<StreamEnd>>
      [] t.kind = "Document" -> <<DocumentStart>> \o GivenOrderList(t.nodes) \o <<DocumentEnd>>
      [] t.kind = "Mapping" ->
            <<MappingStart(0)>> \o GivenOrderList(FlattenPairs(t.pairs)) \o <<MappingEnd>>
      [] t.kind = "Sequence" -> <<SequenceStart(0)>> \o GivenOrderList(t.items) \o <<SequenceEnd>>
      [] OTHER -> NodeIntoEvents(t)

\* C15: the translator keeps the order of the tree: documents in stream order, sequence
\* items in list order, and for a mapping MappingStart, then the key events and the value
\* events of each pair in the order the pairs were given at construction, then MappingEnd.
C15_OrderPreserved ==
    (tree # NoTree /\ ~IntoEventsUnimplemented(tree) /\ status = Emitting /\ index = 0)
        => events = GivenOrderEvents(tree)

\* the text a scalar node stands for: the string itself, null, true or false, or the
\* decimal numeral of the integer, written out for the integers the trees hold
CanonicalText(n) ==
    CASE n.kind = "String" -> n.s
      [] n.kind = "Null" -> "null"
      [] n.kind = "Boolean" /\ n.b -> "true"
      [] n.kind = "Boolean" /\ ~n.b -> "false"
      [] n.kind = "Integer" /\ n.i = 0 -> "0"
      [] n.kind = "Integer" /\ n.i = 1 -> "1"
      [] n.kind = "Integer" /\ n.i = 7 -> "7"
      [] n.kind = "Integer" /\ n.i = 205 -> "205"
      [] n.kind = "Integer" /\ n.i = -10 -> "-10"

ScalarKinds == {"String", "Null", "Boolean", "Integer"}

\* C16: each String, Null, Boolean and Integer node is translated to exactly one Scalar
\* event holding its canonical text: the string, "null", "true" or "false", the decimal
\* numeral; alone or as the items of a sequence.
C16_ScalarEvents ==
    (tree # NoTree /\ status = Emitting /\ index = 0)
        => /\ tree.kind \in ScalarKinds => events = <<Scalar(CanonicalText(tree))>>
           /\ (tree.kind = "Sequence" /\ \A i \in 1..Len(tree.items) :
                                              tree.items[i].kind \in ScalarKinds)
                 => /\ Len(events) = Len(tree.items) + 2
                    /\ \A i \in 1..Len(tree.items) :
                          events[i + 1] = Scalar(CanonicalText(tree.items[i]))

\* a sequence of a negative integer and a boolean has been translated
C16_Witness ==
    /\ tree = SequenceNode(<<IntegerNode(-10), BooleanNode(TRUE)>>)
    /\ status = Emitting
    /\ index = 0
    /\ events = <<SequenceStart(0), Scalar("-10"), Scalar("true"), SequenceEnd>>

\* C17: on the event cursor peek() never changes the position or the sequence; next()
\* returns what peek() would have returned and moves the position on by one; once the
\* position is at or past the end both return None, and go on doing so at every later call.
C17_CursorDiscipline ==
    [][/\ (call'.op = "peek" /\ call' # call)
            => /\ UNCHANGED <<index, events>>
               /\ call'.returned = EventIterGet(events, index)
       /\ index' # index
            => /\ call'.op = "next"
               /\ call'.returned = EventIterPeek(events, index).event
               /\ index' = index + 1
               /\ events' = events
       /\ index >= Len(events)
            => /\ index' >= Len(events')
               /\ call' # call => call'.returned = NoEvent]_vars

\* next() has been called again after it had returned None, and returned None
C17_Witness ==
    /\ Len(events) >= 2
    /\ index = Len(events) + 2
    /\ call = [op |-> "next", returned |-> NoEvent]

\* the events whose handler calls pop() or current_mut()
StackReaders == {"StreamEnd", "DocumentEnd", "SequenceEnd", "MappingEnd", "Scalar"}

\* C18: pop(), current() and current_mut() on an empty context stack end the run fatally:
\* the call does not return, emit neither goes on nor returns Ok, and the stack stays
\* empty (no negative depth). On a well-nested event sequence no such call is made on an
\* empty stack.
C18_StackUnderflowFatal ==
    /\ []((status # Building /\ WellNested(events)) => status # PanickedUnwrap)
    /\ [][(/\ status = Emitting
           /\ IsEmpty(states)
           /\ index < Len(events)
           /\ events[index + 1].kind \in StackReaders)
              => (status' \notin {Emitting, ReturnedOk} /\ states' = << >>)]_vars

\* a StreamEnd was handled on the empty stack: pop() panicked
C18_Witness ==
    /\ Handled
    /\ LastEvent.kind = "StreamEnd"
    /\ status = PanickedUnwrap
    /\ states = << >>

\* the position of the MappingStart or SequenceStart that the End after position k closes,
\* depth being the number of Ends met on the way back that are still to be matched
RECURSIVE MatchingStart(_, _, _)
MatchingStart(evs, k, depth) ==
    IF k = 0 THEN 0
    ELSE IF evs[k].kind \in {"MappingEnd", "SequenceEnd"}
         THEN MatchingStart(evs, k - 1, depth + 1)
    ELSE IF evs[k].kind \in {"MappingStart", "SequenceStart"}
         THEN (IF depth = 0 THEN k ELSE MatchingStart(evs, k - 1, depth - 1))
    ELSE MatchingStart(evs, k - 1, depth)

\* the indent level the emitter had before it handled its j-th event
LevelBefore(j) == IF j <= 1 THEN 0 ELSE trace[j - 1].indent_level

\* C19: indent changes are symmetric: on a well-nested event sequence, for every
\* MappingStart and SequenceStart, the indent level after the matching End has been
\* handled equals the level before the Start was handled.
C19_IndentSymmetric ==
    (status # Building /\ WellNested(events))
        => \A i \in 1..Len(trace) :
              events[i].kind \in {"MappingEnd", "SequenceEnd"}
                 => trace[i].indent_level = LevelBefore(MatchingStart(events, i - 1, 0))

\* how many nodes are complete among events k..i, depth being the number of brackets
\* opened since k and still open
RECURSIVE Children(_, _, _, _)
Children(evs, k, i, depth) ==
    IF k > i THEN 0
    ELSE IF evs[k].kind \in {"MappingStart", "SequenceStart"}
         THEN Children(evs, k + 1, i, depth + 1)
    ELSE IF evs[k].kind \in {"MappingEnd", "SequenceEnd"}
         THEN (IF depth = 1 THEN 1 ELSE 0) + Children(evs, k + 1, i, depth - 1)
    ELSE (IF depth = 0 THEN 1 ELSE 0) + Children(evs, k + 1, i, depth)

\* the innermost bracket open after the events handled so far is a mapping
InsideMapping ==
    LET open == NestingAfter(events, index)
    IN  open # << >> /\ open[Len(open)] = "Mapping"

\* the number of keys and values complete so far in the innermost open mapping
ChildrenSoFar == Children(events, MatchingStart(events, index, 0) + 1, index, 0)

\* C20: key and value roles follow position: once a key/value pair of a mapping has been
\* processed in full, its value being a scalar, a nested sequence or a nested mapping,
\* the frame of that mapping expects a key again.
C20_ExpectingKeyAfterPair ==
    (/\ status = Emitting
     /\ Handled
     /\ InsideMapping
     /\ ChildrenSoFar > 0
     /\ ChildrenSoFar % 2 = 0)
        => (states # << >> /\ Current(states) = StateMapping(TRUE))

StartKinds == {"StreamStart", "DocumentStart", "MappingStart", "SequenceStart"}
EndKinds == {"StreamEnd", "DocumentEnd", "MappingEnd", "SequenceEnd"}

\* how many of the first n events are of one of these kinds
CountUpTo(evs, n, kinds) == Cardinality({i \in 1..n : evs[i].kind \in kinds})

\* the kinds of the frames of a stack, bottom first
FrameKinds(st) == [i \in 1..Len(st) |-> st[i].kind]

\* the brackets open after the first n events of a well-nested sequence, by kind
OpenAfter(evs, n) ==
    LET open == NestingAfter(evs, n) IN IF open = <<"Closed">> THEN << >> ELSE open

\* the number of events emit has handled
HandledCount == IF index > Len(events) THEN Len(events) ELSE index

\* C21: the context stack moves in lock-step with the Start and End events: on well-nested
\* input, in every state emit reaches (no write refused), the depth of the stack is the
\* number of Start events handled minus the number of End events handled, and the frames
\* on it are those of the Starts not yet closed, so that each End removes the frame its
\* own Start pushed.
C21_StackLockStep ==
    (status # Building /\ SinkAccepted /\ WellNested(events))
        => /\ Len(states) = CountUpTo(events, HandledCount, StartKinds)
                            - CountUpTo(events, HandledCount, EndKinds)
           /\ FrameKinds(states) = OpenAfter(events, HandledCount)
           /\ \A i \in 1..Len(trace) :
                 /\ Len(trace[i].states) = CountUpTo(events, i, StartKinds)
                                           - CountUpTo(events, i, EndKinds)
                 /\ FrameKinds(trace[i].states) = OpenAfter(events, i)

\* a SequenceEnd inside a mapping was handled: the Sequence frame is gone, the Mapping
\* frame is the top again
C21_Witness ==
    /\ status = Emitting
    /\ Handled
    /\ WellNested(events)
    /\ LastEvent.kind = "SequenceEnd"
    /\ FrameKinds(states) = <<"Stream", "Document", "Mapping">>

\* the kind of frame an End event closes
FrameOfEnd(kind) ==
    CASE kind = "StreamEnd" -> "Stream"
      [] kind = "DocumentEnd" -> "Document"
      [] kind = "MappingEnd" -> "Mapping"
      [] kind = "SequenceEnd" -> "Sequence"

\* emit handled an End event while the top frame was of another kind (a StreamEnd with
\* frames above the Stream frame is such an End): position i of the events
UnbalancedEndAt(i) ==
    /\ i \in 1..Len(trace)
    /\ events[i].kind \in EndKinds
    /\ LET before == IF i = 1 THEN << >> ELSE trace[i - 1].states
       IN  before # << >> /\ Current(before).kind # FrameOfEnd(events[i].kind)

\* C22: unbalanced events are never accepted in silence: when an End event arrives whose
\* kind does not match the top frame, emit does not return Ok(()); it fails.
C22_UnbalancedEndRejected ==
    (status # Building /\ \E i \in 1..Len(trace) : UnbalancedEndAt(i))
        => status # ReturnedOk

\* emit has just written a sequence item: a Scalar was handled on a Sequence frame and
\* every write was accepted
ItemWritten ==
    /\ status = Emitting
    /\ Handled
    /\ LastEvent.kind = "Scalar"
    /\ states # << >>
    /\ Current(states).kind = "Sequence"

\* the line of a sequence item: indent_size * indent_level spaces, "- ", the text
ItemLine == Repeat(" ", indent_size * indent_level) \o "- " \o LastEvent.value \o "\n"

\* C23: every sequence-item line begins with exactly indent_size * indent_level spaces,
\* indent_level being the level at which the item's Scalar is handled, followed by "- ",
\* the scalar text and a line break: the output ends with that line, and the line starts
\* where the output starts or right after a line break.
C23_SequenceItemLine ==
    ItemWritten
        => /\ EndsWith(output, ItemLine)
           /\ \/ Len(output) = Len(ItemLine)
              \/ SubSeq(output, Len(output) - Len(ItemLine), Len(output) - Len(ItemLine)) = "\n"

\* C24: emit comes to an end on every finite event sequence, well-nested or not, by
\* returning or by failing, never by looping; until then it consumes the events once each
\* and in order (the position moves by one per step and never back), and on a well-nested
\* sequence from which it returns Ok(()) it has consumed them all.
C24_EmitTerminates ==
    /\ (status = Emitting) ~> (status \in Ended)
    /\ [][status = Emitting => (index' = index + 1 /\ events' = events)]_vars
    /\ [](status = Emitting => (Len(trace) = index /\ index <= Len(events)))
    /\ []((status = ReturnedOk /\ WellNested(events))
             => (Len(trace) = Len(events) /\ index = Len(events) + 1))

\* emit returned from the stream of test::basic after handling its 17 events
C24_Witness ==
    /\ tree = BasicTestStream
    /\ status = ReturnedOk
    /\ Len(trace) = Len(events)
    /\ index = Len(events) + 1

\* C25: handling a Scalar event leaves the indent level, the depth of the context stack
\* and the kind of every frame as they were; besides the cursor and the output it may
\* change only the key/value flag of the top frame, where that is a Mapping frame, and
\* never a frame below the top.
C25_ScalarFrameEffect ==
    [][Taking("Scalar")
         => /\ indent_level' = indent_level
            /\ Len(states') = Len(states)
            /\ FrameKinds(states') = FrameKinds(states)
            /\ \A i \in 1..(Len(states) - 1) : states'[i] = states[i]
            /\ states' # states => Current(states).kind = "Mapping"
            /\ UNCHANGED <<events, indent_size>>]_vars

\* a key was handled inside a nested mapping: the flag of the top frame changed, the frame
\* of the outer mapping below it did not
C25_Witness ==
    /\ status = Emitting
    /\ Handled
    /\ index >= 2
    /\ LastEvent.kind = "Scalar"
    /\ trace[index - 1].states = <<StateMapping(FALSE), StateMapping(TRUE)>>
    /\ states = <<StateMapping(FALSE), StateMapping(FALSE)>>

====
